---- MODULE Spec2Model ----
(***************************************************************************)
(* Model of the CT-SEG insert-segment move                                 *)
(* (c++/triqs_ctseg/moves/insert_segment.cpp) and of the G(tau)/F(tau)     *)
(* measure (c++/triqs_ctseg/measures/G_F_tau.cpp).                         *)
(*                                                                         *)
(* Imaginary times are points of a discrete grid 0..NMax (tau_t stores an  *)
(* unsigned integer n, beta is n = n_max, zero is n = 0).  Segment lists   *)
(* are ordered by decreasing tau_c, the determinant keys by increasing     *)
(* time.                                                                   *)
(***************************************************************************)
EXTENDS Integers, Sequences, FiniteSets, TLC

\* ------------------------------------------------------------------ bounds
\* Number of grid points of the imaginary-time circle (n_max of tau_t).
NMax == 5
\* Number of colors, config.n_color().
NColor == 2
\* Cap on the number of segments of the whole configuration explored by
\* the model (a full line counts as one).
MaxSeg == 2

\* Number of workers that may take part in the reduction.
NWorkers == 2
\* Number of points of the imaginary-time mesh of G_tau and F_tau (n_tau_G).
NTau == 3
\* Inverse temperature beta.
Beta == 2
\* Cap on the number of accumulate() calls explored by the model.
MaxMeas == 2

Colors == 0 .. (NColor - 1)
Workers == 1 .. NWorkers
Bins == 0 .. (NTau - 1)

VARIABLES
  seglists,   \* config.seglists: color -> sequence of segments
  dets,       \* wdata.dets: color -> determinant state
  color,      \* insert_segment::color
  prop_seg,   \* insert_segment::prop_seg
  det_sign,   \* insert_segment::det_sign
  drawn,      \* the rng draws consumed by the outstanding attempt()
  pc,         \* position of the outer sampler in the move cycle
  ret,        \* the last call made to the move and the value it returned
  before      \* history: seglists and dets as the last attempt() found them

VARIABLES
  p_measure_F_tau, \* p.measure_F_tau: the caller asked for F(tau)
  rot_inv,        \* wdata.rot_inv: the model is rotationally invariant
  measure_F_tau,  \* G_F_tau::measure_F_tau (the same for every worker)
  G_tau,          \* worker -> block -> bin -> accumulated value (G_F_tau::G_tau)
  F_tau,          \* worker -> block -> bin -> accumulated value (G_F_tau::F_tau)
  Z,              \* worker -> G_F_tau::Z
  results,        \* worker -> results.G_tau, results.F_tau
  nranks,         \* size of the communicator given to collect_results
  n_meas,         \* number of accumulate() calls made so far
  entered,        \* history: the accumulators as collect_results found them
  mpc             \* "accumulating" until collect_results has run, then "collected"

move_vars == <<seglists, dets, color, prop_seg, det_sign, drawn, pc, ret, before>>

meas_vars == <<p_measure_F_tau, rot_inv, measure_F_tau, G_tau, F_tau, Z, results, nranks, n_meas, entered, mpc>>

\* ------------------------------------------------------------------ tau_t
tau_beta == NMax
tau_zero == 0

\* tau_t operator-: cyclic subtraction on the grid.
TauSub(a, b) == IF a >= b THEN a - b ELSE NMax - (b - a)

\* tau_t::random(rng, tau_max): a point strictly inside ]0, tau_max[.
TauRandom(tau_max) == 1 .. (tau_max - 1)

\* ------------------------------------------------------------------ segment_t
segment_t(c, cdag) == [tau_c |-> c, tau_cdag |-> cdag]

full_line == segment_t(tau_beta, tau_zero)

is_full_line(seg) == seg = full_line

is_cyclic(seg) == seg.tau_cdag > seg.tau_c

\* operator< of segment_t: segments are ordered by decreasing tau_c.
SegLess(s1, s2) == s1.tau_c > s2.tau_c

\* std::upper_bound(sl.begin(), sl.end(), value): binary search for the first
\* position (0-based) whose element is greater than value.
RECURSIVE UpperBoundLoop(_, _, _, _)
UpperBoundLoop(sl, value, first, count) ==
  IF count <= 0 THEN first
  ELSE LET step == count \div 2
           it   == first + step
       IN IF ~SegLess(value, sl[it + 1])
          THEN UpperBoundLoop(sl, value, it + 1, count - (step + 1))
          ELSE UpperBoundLoop(sl, value, first, step)

upper_bound(sl, value) == UpperBoundLoop(sl, value, 0, Len(sl))

\* std::vector::insert before 0-based position pos.
InsertAt(s, pos, e) == SubSeq(s, 1, pos) \o <<e>> \o SubSeq(s, pos + 1, Len(s))

\* ------------------------------------------------------------------ det_manip
\* One determinant: x = row keys (cdag times), y = column keys (c times),
\* try = the pending trial insertion (empty when there is none).
NoTry == <<>>

EmptyDet == [x |-> <<>>, y |-> <<>>, try |-> NoTry]

DetSize(D) == Len(D.x)

\* lower_bound(f, N, value): binary search over f(0..N-1).
RECURSIVE LowerBoundLoop(_, _, _, _)
LowerBoundLoop(keys, value, first, count) ==
  IF count <= 0 THEN first
  ELSE LET step == count \div 2
       IN IF keys[first + step + 1] < value
          THEN LowerBoundLoop(keys, value, first + step + 1, count - (step + 1))
          ELSE LowerBoundLoop(keys, value, first, step)

lower_bound(keys, N, value) == LowerBoundLoop(keys, value, 0, N)

\* det_manip::try_insert(i, j, x, y): records the trial, matrix untouched.
try_insert(D, i, j, x, y) ==
  [D EXCEPT !.try = <<[i |-> i, j |-> j, x |-> x, y |-> y]>>]

\* det_manip::complete_operation(): commits the pending trial, if any.
complete_operation(D) ==
  IF D.try = NoTry THEN D
  ELSE LET t == D.try[1]
       IN [x   |-> InsertAt(D.x, t.i, t.x),
           y   |-> InsertAt(D.y, t.j, t.y),
           try |-> NoTry]

\* det_manip::reject_last_try(): forgets the pending trial.
reject_last_try(D) == [D EXCEPT !.try = NoTry]

\* ------------------------------------------------------------------ config_sign
\* Sign of a configuration: a color whose last operator in time is a cdag
\* (its last segment wraps around beta) contributes (-1)^size.
ColorSign(D) ==
  LET s == DetSize(D)
  IN IF s = 0 THEN 1
     ELSE IF D.x[s] > D.y[s] THEN (IF s % 2 = 0 THEN 1 ELSE -1)
     ELSE 1

RECURSIVE SignProduct(_, _)
SignProduct(ds, c) ==
  IF c >= NColor THEN 1 ELSE ColorSign(ds[c]) * SignProduct(ds, c + 1)

config_sign(sls, ds) == SignProduct(ds, 0)

\* final_sign / initial_sign for signs in {-1, 1}.
SignDiv(a, b) == IF b = 1 THEN a ELSE -a

\* ------------------------------------------------------------------ attempt()
RECURSIVE SegCount(_, _)
SegCount(sls, c) == IF c >= NColor THEN 0 ELSE Len(sls[c]) + SegCount(sls, c + 1)

NoDraw == [seg_idx |-> -1, dt1 |-> 0, dt2 |-> 0]

\* Insertion window [wtau_left, wtau_right] and its length.
wtau_left(sl, seg_idx) == IF sl = <<>> THEN tau_beta ELSE sl[seg_idx + 1].tau_cdag

\* Faulty variant: no wrap to the first segment when the chosen one is last.
wtau_right_NoWrap(sl, seg_idx) ==
  IF sl = <<>> THEN tau_zero
  ELSE LET is_last_segment == (seg_idx = Len(sl) - 1)
       IN sl[(IF is_last_segment THEN seg_idx ELSE seg_idx + 1) + 1].tau_c

wtau_right(sl, seg_idx) ==
  IF sl = <<>> THEN tau_zero
  ELSE LET is_last_segment == (seg_idx = Len(sl) - 1)
       IN sl[(IF is_last_segment THEN 0 ELSE seg_idx + 1) + 1].tau_c

window_length(sl, seg_idx) ==
  IF sl = <<>> THEN tau_beta
  ELSE TauSub(wtau_left(sl, seg_idx), wtau_right(sl, seg_idx))

\* rng(sl.size()); nothing is drawn for an empty list.
SegIdxChoices(sl) == IF sl = <<>> THEN {-1} ELSE 0 .. (Len(sl) - 1)

\* Faulty variant: the draws are ordered for an empty line too.
TrialSegment_AlwaysSwap(sl, wl, dt1, dt2) ==
  IF dt1 > dt2
  THEN segment_t(TauSub(wl, dt2), TauSub(wl, dt1))
  ELSE segment_t(TauSub(wl, dt1), TauSub(wl, dt2))

\* Faulty variant: the draws are never ordered.
TrialSegment_NeverSwap(sl, wl, dt1, dt2) ==
  segment_t(TauSub(wl, dt1), TauSub(wl, dt2))

\* The trial segment built from the two draws (swap unless the line is empty).
TrialSegment(sl, wl, dt1, dt2) ==
  IF dt1 > dt2 /\ sl # <<>>
  THEN segment_t(TauSub(wl, dt2), TauSub(wl, dt1))
  ELSE segment_t(TauSub(wl, dt1), TauSub(wl, dt2))

\* Faulty variant: the trial insertion is never issued.
TryInsertTrial_NotIssued(D, seg) == D

\* Faulty variant: the row and the column are appended after the last one.
TryInsertTrial_AtEnd(D, seg) ==
  try_insert(D, DetSize(D), DetSize(D), seg.tau_cdag, seg.tau_c)

\* The trial insertion of seg into determinant D: rows are cdag times,
\* columns are c times, positions found by lower_bound.
TryInsertTrial(D, seg) ==
  LET det_index_c    == lower_bound(D.y, DetSize(D), seg.tau_c)
      det_index_cdag == lower_bound(D.x, DetSize(D), seg.tau_cdag)
  IN try_insert(D, det_index_cdag, det_index_c, seg.tau_cdag, seg.tau_c)

\* Faulty variant: a zero ratio counts as positive.
DetSign_ZeroPositive(det_ratio) == IF det_ratio >= 0 THEN 1 ELSE -1

\* Sign stored by attempt(): +1 only for a strictly positive ratio.
DetSign(det_ratio) == IF det_ratio > 0 THEN 1 ELSE -1

\* Value returned by attempt(): the product when finite, else det_sign.
\* trace_ratio and prop_ratio are non-negative, so the product is
\* represented by its sign.
AttemptValue(trace_ratio, det_ratio, prod_finite) ==
  IF prod_finite THEN trace_ratio * det_ratio ELSE DetSign(det_ratio)

\* Faulty variant: the full-line test does not stop the proposal: a weight is returned.
attempt_full_line_Weight ==
  /\ pc = "idle"
  /\ \E col \in Colors :
       /\ seglists[col] # <<>>
       /\ is_full_line(seglists[col][Len(seglists[col])])
       /\ color' = col
       /\ ret' = [op |-> "attempt", val |-> 1]
  /\ drawn' = NoDraw
  /\ pc' = "proposed"
  /\ before' = [seglists |-> seglists, dets |-> dets]
  /\ UNCHANGED <<seglists, dets, prop_seg, det_sign>>
  /\ UNCHANGED meas_vars

\* What attempt() can store and return, over the values the trace ratio
\* (0 on underflow, else positive), the determinant ratio (by sign) and the
\* finiteness of the product can take.
AttemptOutcomes ==
  {[det_sign |-> DetSign(det_ratio),
    val      |-> AttemptValue(trace_ratio, det_ratio, prod_finite)] :
     trace_ratio \in {0, 1}, det_ratio \in {-1, 0, 1}, prod_finite \in BOOLEAN}

\* attempt() on a color holding a full line: return 0 at once.
attempt_full_line ==
  /\ pc = "idle"
  /\ \E col \in Colors :
       /\ seglists[col] # <<>>
       /\ is_full_line(seglists[col][Len(seglists[col])])
       /\ color' = col
       /\ ret' = [op |-> "attempt", val |-> 0]
  /\ drawn' = NoDraw
  /\ pc' = "proposed"
  /\ before' = [seglists |-> seglists, dets |-> dets]
  /\ UNCHANGED <<seglists, dets, prop_seg, det_sign>>
  /\ UNCHANGED meas_vars

\* Faulty variant: the equal-time test comes after the segment was built
\* and the trial insertion issued.
attempt_equal_times_Late ==
  /\ pc = "idle"
  /\ \E col \in Colors :
       LET sl == seglists[col] IN
       /\ ~(sl # <<>> /\ is_full_line(sl[Len(sl)]))
       /\ \E seg_idx \in SegIdxChoices(sl) :
            \E dt1 \in TauRandom(window_length(sl, seg_idx)) :
               LET wl  == wtau_left(sl, seg_idx)
                   seg == segment_t(TauSub(wl, dt1), TauSub(wl, dt1))
               IN /\ color' = col
                  /\ drawn' = [seg_idx |-> seg_idx, dt1 |-> dt1, dt2 |-> dt1]
                  /\ prop_seg' = seg
                  /\ dets' = [dets EXCEPT ![col] = TryInsertTrial(@, seg)]
  /\ ret' = [op |-> "attempt", val |-> 0]
  /\ pc' = "proposed"
  /\ before' = [seglists |-> seglists, dets |-> dets]
  /\ UNCHANGED <<seglists, det_sign>>
  /\ UNCHANGED meas_vars

\* attempt() drawing two equal times: return 0 before building the segment.
attempt_equal_times ==
  /\ pc = "idle"
  /\ \E col \in Colors :
       LET sl == seglists[col] IN
       /\ ~(sl # <<>> /\ is_full_line(sl[Len(sl)]))
       /\ \E seg_idx \in SegIdxChoices(sl) :
            \E dt1 \in TauRandom(window_length(sl, seg_idx)) :
               /\ color' = col
               /\ drawn' = [seg_idx |-> seg_idx, dt1 |-> dt1, dt2 |-> dt1]
  /\ ret' = [op |-> "attempt", val |-> 0]
  /\ pc' = "proposed"
  /\ before' = [seglists |-> seglists, dets |-> dets]
  /\ UNCHANGED <<seglists, dets, prop_seg, det_sign>>
  /\ UNCHANGED meas_vars

\* attempt() reaching the weight computation: builds prop_seg, issues the
\* trial insertion, stores det_sign and returns the weight.
attempt_insert ==
  /\ pc = "idle"
  /\ \E col \in Colors :
       LET sl == seglists[col] IN
       /\ ~(sl # <<>> /\ is_full_line(sl[Len(sl)]))
       /\ SegCount(seglists, 0) < MaxSeg
       /\ \E seg_idx \in SegIdxChoices(sl) :
            LET wl == wtau_left(sl, seg_idx)
                L  == window_length(sl, seg_idx)
            IN \E dt1 \in TauRandom(L), dt2 \in TauRandom(L) :
                 /\ dt1 # dt2
                 /\ LET seg == TrialSegment(sl, wl, dt1, dt2)
                    IN /\ prop_seg' = seg
                       /\ dets' = [dets EXCEPT ![col] = TryInsertTrial(@, seg)]
                 /\ color' = col
                 /\ drawn' = [seg_idx |-> seg_idx, dt1 |-> dt1, dt2 |-> dt2]
  /\ \E o \in AttemptOutcomes :
       /\ det_sign' = o.det_sign
       /\ ret' = [op |-> "attempt", val |-> o.val]
  /\ pc' = "proposed"
  /\ before' = [seglists |-> seglists, dets |-> dets]
  /\ UNCHANGED seglists
  /\ UNCHANGED meas_vars

\* ------------------------------------------------------------------ accept()
\* Faulty variant: the sign check is compiled out.
SignCheck_Off(sign_ratio, ds) == TRUE

\* ALWAYS_EXPECTS(sign_ratio * det_sign == 1.0)
SignCheck(sign_ratio, ds) == sign_ratio * ds = 1

\* Faulty variant: the trial is never committed to the determinant.
CommitDet_Skipped(ds, col) == [ds EXCEPT ![col] = reject_last_try(@)]

\* wdata.dets[color].complete_operation()
CommitDet(ds, col) == [ds EXCEPT ![col] = complete_operation(@)]

\* Faulty variant: the segment is appended instead of inserted in order.
InsertOrdered_PushBack(sl, seg) == Append(sl, seg)

\* Faulty variant: the segment overwrites the element at the insertion point.
InsertOrdered_Overwrite(sl, seg) ==
  LET pos == upper_bound(sl, seg)
  IN IF pos < Len(sl) THEN [sl EXCEPT ![pos + 1] = seg] ELSE Append(sl, seg)

\* Insert the segment in the ordered list: upper_bound, then insert.
InsertOrdered(sl, seg) == InsertAt(sl, upper_bound(sl, seg), seg)

\* The outer sampler accepts only a non-zero weight.
accept ==
  /\ pc = "proposed"
  /\ ret.op = "attempt" /\ ret.val # 0
  /\ LET initial_sign == config_sign(seglists, dets)
         dets2        == CommitDet(dets, color)
         seglists2    == [seglists EXCEPT ![color] = InsertOrdered(@, prop_seg)]
         final_sign   == config_sign(seglists2, dets2)
         sign_ratio   == SignDiv(final_sign, initial_sign)
     IN /\ dets' = dets2
        /\ seglists' = seglists2
        /\ IF SignCheck(sign_ratio, det_sign)
           THEN /\ pc' = "idle"
                /\ ret' = [op |-> "accept", val |-> sign_ratio]
           ELSE /\ pc' = "aborted"
                /\ ret' = [op |-> "abort", val |-> sign_ratio]
  /\ drawn' = NoDraw
  /\ UNCHANGED <<color, prop_seg, det_sign, before>>
  /\ UNCHANGED meas_vars

\* ------------------------------------------------------------------ reject()
\* Faulty variant: the trial is committed instead of rolled back.
RollBack_Commits(ds, col) == [ds EXCEPT ![col] = complete_operation(@)]

\* Faulty variant: the trial is left pending.
RollBack_Forgotten(ds, col) == ds

\* wdata.dets[color].reject_last_try()
RollBack(ds, col) == [ds EXCEPT ![col] = reject_last_try(@)]

reject ==
  /\ pc = "proposed"
  /\ dets' = RollBack(dets, color)
  /\ pc' = "idle"
  /\ ret' = [op |-> "reject", val |-> 0]
  /\ drawn' = NoDraw
  /\ UNCHANGED <<seglists, color, prop_seg, det_sign, before>>
  /\ UNCHANGED meas_vars

\* ------------------------------------------------------------------ G_F_tau
\* A zero-initialised block_gf: one histogram per block.
ZeroGf == [bl \in Colors |-> [i \in Bins |-> 0]]

\* A results entry not assigned yet, and a block_gf that was moved from:
\* neither has a block.
Unset == [k \in {-1} |-> 0]

Moved == [k \in {-2} |-> 0]

\* Faulty variant: rot_inv is not consulted.
MeasureFTau_RequestOnly(requested, rotinv) == requested

\* measure_F_tau = p.measure_F_tau and wdata.rot_inv
MeasureFTau(requested, rotinv) == requested /\ rotinv

\* State of the measure right after its constructor.
MeasInit ==
  /\ G_tau = [w \in Workers |-> ZeroGf]
  /\ F_tau = [w \in Workers |-> ZeroGf]
  /\ Z = [w \in Workers |-> 0]
  /\ results = [w \in Workers |-> [G_tau |-> Unset, F_tau |-> Unset]]
  /\ n_meas = 0
  /\ entered = Unset
  /\ mpc = "accumulating"

\* closest_mesh_pt(double(tau)): index of the mesh point nearest to
\* beta * n / n_max on the mesh of NTau points spaced beta / (NTau - 1).
closest_mesh_pt(n) == (2 * n * (NTau - 1) + NMax) \div (2 * NMax)

\* det.inverse_matrix(id_y, id_x) for the inverse matrices the model draws.
inverse_matrix(m, id_y, id_x) ==
  IF m = 1 THEN 1 ELSE 2 * (id_y - id_x) + 1

MinvChoices == {1, 2}

\* Values fprefactor() may return.
FFactChoices == {0, 2}

\* Index pairs (id_y, id_x) of a determinant of size N.
Pairs(N) == (0 .. (N - 1)) \X (0 .. (N - 1))

\* Faulty variant: the sign is not fixed for y before x.
PairVal_NoSignFix(D, m, s, p) == s * inverse_matrix(m, p[1], p[2])

\* val of the pair p = <<id_y, id_x>> of determinant D.
PairVal(D, m, s, p) ==
  LET y == D.y[p[1] + 1]
      x == D.x[p[2] + 1]
  IN (IF y >= x THEN s ELSE -s) * inverse_matrix(m, p[1], p[2])

\* Mesh index the pair p contributes to.
PairBin(D, p) == closest_mesh_pt(TauSub(D.y[p[1] + 1], D.x[p[2] + 1]))

RECURSIVE SumVals(_, _, _, _)
SumVals(D, m, s, ps) ==
  IF ps = {} THEN 0
  ELSE LET p == CHOOSE q \in ps : TRUE
       IN PairVal(D, m, s, p) + SumVals(D, m, s, ps \ {p})

\* What one accumulate() call adds to bin i of the block of determinant D.
BinIncrement(D, m, s, i) ==
  SumVals(D, m, s, {p \in Pairs(DetSize(D)) : PairBin(D, p) = i})

\* Faulty variant: Z is incremented inside the loop over the blocks.
accumulate_ZPerBlock ==
  /\ mpc = "accumulating"
  /\ n_meas < MaxMeas
  /\ \E w \in 1 .. nranks, s \in {-1, 1}, m \in MinvChoices, f_fact \in FFactChoices :
       /\ Z' = [Z EXCEPT ![w] = @ + s * NColor]
       /\ G_tau' = [G_tau EXCEPT ![w] =
            [bl \in Colors |-> [i \in Bins |->
               G_tau[w][bl][i] + BinIncrement(dets[bl], m, s, i)]]]
       /\ F_tau' = [F_tau EXCEPT ![w] =
            [bl \in Colors |-> [i \in Bins |->
               IF measure_F_tau
               THEN F_tau[w][bl][i] + BinIncrement(dets[bl], m, s, i) * f_fact
               ELSE F_tau[w][bl][i]]]]
  /\ n_meas' = n_meas + 1
  /\ UNCHANGED <<p_measure_F_tau, rot_inv, measure_F_tau, results, nranks, entered, mpc>>
  /\ UNCHANGED move_vars

\* accumulate(s) on worker w.
accumulate ==
  /\ mpc = "accumulating"
  /\ n_meas < MaxMeas
  /\ \E w \in 1 .. nranks, s \in {-1, 1}, m \in MinvChoices, f_fact \in FFactChoices :
       /\ Z' = [Z EXCEPT ![w] = @ + s]
       /\ G_tau' = [G_tau EXCEPT ![w] =
            [bl \in Colors |-> [i \in Bins |->
               G_tau[w][bl][i] + BinIncrement(dets[bl], m, s, i)]]]
       /\ F_tau' = [F_tau EXCEPT ![w] =
            [bl \in Colors |-> [i \in Bins |->
               IF measure_F_tau
               THEN F_tau[w][bl][i] + BinIncrement(dets[bl], m, s, i) * f_fact
               ELSE F_tau[w][bl][i]]]]
  /\ n_meas' = n_meas + 1
  /\ UNCHANGED <<p_measure_F_tau, rot_inv, measure_F_tau, results, nranks, entered, mpc>>
  /\ UNCHANGED move_vars

\* ---- arithmetic of the published values: exact fractions num / den with
\* den > 0, and den = 0 for the non-finite results of a division by zero
\* (num = 1: +inf, num = -1: -inf, num = 0: NaN).
Abs(n) == IF n < 0 THEN -n ELSE n

Sgn(n) == IF n > 0 THEN 1 ELSE IF n < 0 THEN -1 ELSE 0

RECURSIVE GCD(_, _)
GCD(a, b) == IF b = 0 THEN a ELSE GCD(b, a % b)

Frac(n, d) ==
  IF d = 0 THEN [num |-> Sgn(n), den |-> 0]
  ELSE LET g  == GCD(Abs(n), Abs(d))
           sg == IF d < 0 THEN -1 ELSE 1
       IN [num |-> (sg * n) \div g, den |-> (sg * d) \div g]

\* raw / (-beta * Zr * delta) with delta = beta / (NTau - 1); the divisor
\* is -0.0 when Zr = 0.
Rescale(raw, Zr) ==
  IF Zr = 0 THEN [num |-> -Sgn(raw), den |-> 0]
  ELSE Frac(raw * (NTau - 1), -(Beta * Zr * Beta))

\* v *= 2
Twice(v) == Frac(2 * v.num, v.den)

\* mpi::all_reduce of a scalar over the ranks 1..n.
RECURSIVE all_reduce(_, _)
all_reduce(vals, n) == IF n = 0 THEN 0 ELSE vals[n] + all_reduce(vals, n - 1)

\* mpi::all_reduce of a block_gf: element-wise sum.
all_reduce_gf(gfs, n) ==
  [bl \in Colors |-> [i \in Bins |-> all_reduce([w \in 1 .. n |-> gfs[w][bl][i]], n)]]

\* Faulty variant: only the first point is doubled.
FixEndPoints_FirstOnly(g) ==
  [i \in Bins |-> IF i = 0 THEN Twice(g[i]) ELSE g[i]]

\* Fix the point at zero and beta, for each block.
FixEndPoints(g) ==
  [i \in Bins |-> IF i = 0 \/ i = NTau - 1 THEN Twice(g[i]) ELSE g[i]]

\* The block_gf published from the reduced histogram gr and the reduced Zr.
Normalized(gr, Zr) ==
  [bl \in Colors |-> FixEndPoints([i \in Bins |-> Rescale(gr[bl][i], Zr)])]

\* Faulty variant: Z is not reduced, the first worker's Z is used.
ReducedZ_Local(zs, n) == zs[1]

\* The Z used by collect_results: the all-worker sum.
ReducedZ(zs, n) == all_reduce(zs, n)

\* collect_results(c): a collective call of the nranks workers.
collect_results ==
  /\ mpc = "accumulating"
  /\ LET Zr == ReducedZ(Z, nranks)
         Gr == all_reduce_gf(G_tau, nranks)
         Fr == all_reduce_gf(F_tau, nranks)
     IN /\ Z' = [w \in Workers |-> IF w <= nranks THEN Zr ELSE Z[w]]
        /\ G_tau' = [w \in Workers |-> IF w <= nranks THEN Moved ELSE G_tau[w]]
        /\ F_tau' = [w \in Workers |->
                       IF w <= nranks /\ measure_F_tau THEN Moved ELSE F_tau[w]]
        /\ results' = [w \in Workers |->
             IF w <= nranks
             THEN [G_tau |-> Normalized(Gr, Zr),
                   F_tau |-> IF measure_F_tau THEN Normalized(Fr, Zr)
                             ELSE results[w].F_tau]
             ELSE results[w]]
  /\ entered' = [G_tau |-> G_tau, F_tau |-> F_tau, Z |-> Z]
  /\ mpc' = "collected"
  /\ UNCHANGED <<p_measure_F_tau, rot_inv, measure_F_tau, nranks, n_meas>>
  /\ UNCHANGED move_vars

\* Determinant states of the sampled configurations the model goes through:
\* no operator at all, or two segments in every color (pairs with the row
\* time before and after the column time).
MeasuredDet ==
  {EmptyDet,
   [x |-> <<0, 2>>, y |-> <<1, 3>>, try |-> NoTry]}

MeasuredDets == {[c \in Colors |-> D] : D \in MeasuredDet}

\* The Monte Carlo steps between two measurements move the determinants to
\* another configuration.
mc_sweep ==
  /\ mpc = "accumulating"
  /\ dets' \in MeasuredDets
  /\ dets' # dets
  /\ UNCHANGED <<seglists, color, prop_seg, det_sign, drawn, pc, ret, before>>
  /\ UNCHANGED meas_vars

\* ------------------------------------------------------------------ specification
\* Every color starts unoccupied (empty list) or fully occupied (full line);
\* no operator is present, so every determinant is empty.
Init ==
  /\ seglists \in [Colors -> {<<>>, <<full_line>>}]
  /\ dets = [c \in Colors |-> EmptyDet]
  /\ color = 0
  /\ prop_seg = segment_t(tau_zero, tau_zero)
  /\ det_sign = 1
  /\ drawn = NoDraw
  /\ pc = "idle"
  /\ ret = [op |-> "none", val |-> 0]
  /\ before = [seglists |-> seglists, dets |-> dets]
  /\ p_measure_F_tau = FALSE
  /\ rot_inv = FALSE
  /\ measure_F_tau = MeasureFTau(p_measure_F_tau, rot_inv)
  /\ nranks = 1
  /\ MeasInit

Next ==
  \/ attempt_full_line
  \/ attempt_equal_times
  \/ attempt_insert
  \/ accept
  \/ reject

vars == <<move_vars, meas_vars>>

Spec == Init /\ [][Next]_vars

\* The measure on its own: the configuration is sampled by mc_sweep, the
\* nranks workers accumulate and then collect once.
InitM ==
  /\ seglists = [c \in Colors |-> <<>>]
  /\ dets \in MeasuredDets
  /\ color = 0
  /\ prop_seg = segment_t(tau_zero, tau_zero)
  /\ det_sign = 1
  /\ drawn = NoDraw
  /\ pc = "idle"
  /\ ret = [op |-> "none", val |-> 0]
  /\ before = [seglists |-> seglists, dets |-> dets]
  /\ p_measure_F_tau \in BOOLEAN
  /\ rot_inv \in BOOLEAN
  /\ measure_F_tau = MeasureFTau(p_measure_F_tau, rot_inv)
  /\ nranks \in Workers
  /\ MeasInit

NextM ==
  \/ mc_sweep
  \/ accumulate
  \/ collect_results

SpecM == InitM /\ [][NextM]_vars

\* ------------------------------------------------------------------ the weight of attempt()
\* attempt() with the three factors of the weight kept as exact fractions
\* (window lengths as real numbers: beta * n / n_max).

\* Values of exp(ln_trace_ratio): 0 on underflow, else positive.
TraceRatioChoices == {0, 2}

\* Values of the ratio returned by try_insert.
DetRatioChoices == {-3, 0, 3}

\* Faulty variant: the product is halved for an empty list too.
PropRatio_AlwaysHalved(sl, L) ==
  LET current_number_intervals == IF Len(sl) > 1 THEN Len(sl) ELSE 1
      future_number_segments   == Len(sl) + 1
  IN Frac(current_number_intervals * (Beta * L) * (Beta * L),
          NMax * NMax * 2 * future_number_segments)

\* prop_ratio = (current_number_intervals * window_length^2
\*               / (sl.empty() ? 1 : 2)) / future_number_segments
PropRatio(sl, L) ==
  LET current_number_intervals == IF Len(sl) > 1 THEN Len(sl) ELSE 1
      future_number_segments   == Len(sl) + 1
  IN Frac(current_number_intervals * (Beta * L) * (Beta * L),
          NMax * NMax * (IF sl = <<>> THEN 1 ELSE 2) * future_number_segments)

\* The value returned: prod when std::isfinite(prod), else det_sign.
\* prod_finite is false when a factor or the product overflowed.
WeightValue(trace_ratio, det_ratio, prop_ratio, prod_finite) ==
  IF prod_finite
  THEN Frac(trace_ratio * det_ratio * prop_ratio.num, prop_ratio.den)
  ELSE Frac(DetSign(det_ratio), 1)

\* attempt() reaching the weight computation; drawn keeps the locals and
\* ret.val the returned value as an exact fraction.
attempt_weigh ==
  /\ pc = "idle"
  /\ \E col \in Colors :
       LET sl == seglists[col] IN
       /\ ~(sl # <<>> /\ is_full_line(sl[Len(sl)]))
       /\ \E seg_idx \in SegIdxChoices(sl) :
            LET wl == wtau_left(sl, seg_idx)
                L  == window_length(sl, seg_idx)
            IN \E dt1 \in TauRandom(L), dt2 \in TauRandom(L) :
                 /\ dt1 # dt2
                 /\ LET seg == TrialSegment(sl, wl, dt1, dt2)
                    IN /\ prop_seg' = seg
                       /\ dets' = [dets EXCEPT ![col] = TryInsertTrial(@, seg)]
                 /\ color' = col
                 /\ \E trace_ratio \in TraceRatioChoices, det_ratio \in DetRatioChoices,
                       prod_finite \in BOOLEAN :
                      LET prop_ratio == PropRatio(sl, L)
                      IN /\ drawn' = [seg_idx |-> seg_idx, dt1 |-> dt1, dt2 |-> dt2,
                                      window_length |-> L,
                                      trace_ratio |-> trace_ratio,
                                      det_ratio |-> det_ratio,
                                      prop_ratio |-> prop_ratio,
                                      prod_finite |-> prod_finite]
                         /\ det_sign' = DetSign(det_ratio)
                         /\ ret' = [op  |-> "attempt",
                                    val |-> WeightValue(trace_ratio, det_ratio,
                                                        prop_ratio, prod_finite)]
  /\ pc' = "proposed"
  /\ before' = [seglists |-> seglists, dets |-> dets]
  /\ UNCHANGED seglists
  /\ UNCHANGED meas_vars

\* The determinant holding the operators of the list sl.
RECURSIVE DetOfList(_, _)
DetOfList(sl, k) ==
  IF k = 0 THEN EmptyDet
  ELSE complete_operation(TryInsertTrial(DetOfList(sl, k - 1), sl[k]))

\* Lists of color 0 the weight is computed on: none, one and two segments.
WeighedLists ==
  {<<>>,
   <<segment_t(3, 1)>>,
   <<segment_t(tau_beta - 1, tau_beta - 2), segment_t(1, tau_zero)>>}

InitW ==
  /\ seglists \in {[c \in Colors |-> IF c = 0 THEN sl ELSE <<>>] : sl \in WeighedLists}
  /\ dets = [c \in Colors |-> DetOfList(seglists[c], Len(seglists[c]))]
  /\ color = 0
  /\ prop_seg = segment_t(tau_zero, tau_zero)
  /\ det_sign = 1
  /\ drawn = NoDraw
  /\ pc = "idle"
  /\ ret = [op |-> "none", val |-> 0]
  /\ before = [seglists |-> seglists, dets |-> dets]
  /\ p_measure_F_tau = FALSE
  /\ rot_inv = FALSE
  /\ measure_F_tau = MeasureFTau(p_measure_F_tau, rot_inv)
  /\ nranks = 1
  /\ MeasInit

NextW ==
  \/ attempt_weigh
  \/ reject

SpecW == InitW /\ [][NextW]_vars

\* ================================================================== claims
\* ------------------------------------------------------------------ helpers
Pending(c) == dets[c].try # NoTry

IsFullLineColor(c) ==
  seglists[c] # <<>> /\ is_full_line(seglists[c][Len(seglists[c])])

SeqRemove(s, e) == SelectSeq(s, LAMBDA v : v # e)

\* The determinants as they were before the last accepted insertion of prop_seg.
DetsBeforeAccept ==
  [dets EXCEPT ![color] = [x   |-> SeqRemove(@.x, prop_seg.tau_cdag),
                           y   |-> SeqRemove(@.y, prop_seg.tau_c),
                           try |-> NoTry]]

\* Grid points covered by a segment (closed at both operators).
Occupied(seg) ==
  IF is_cyclic(seg)
  THEN {t \in 0 .. (NMax - 1) : t >= seg.tau_cdag \/ t <= seg.tau_c}
  ELSE {t \in 0 .. (NMax - 1) : seg.tau_cdag <= t /\ t <= seg.tau_c}

\* A list in list order: decreasing tau_c, a strict gap between neighbours,
\* only the last segment may wrap around beta, and no two segments overlap.
SegListOrdered(sl) ==
  /\ \A i \in 1 .. (Len(sl) - 1) :
       /\ sl[i].tau_c > sl[i + 1].tau_c
       /\ sl[i].tau_cdag > sl[i + 1].tau_c
       /\ ~is_cyclic(sl[i])
  /\ \A i \in 1 .. Len(sl) : sl[i].tau_c # sl[i].tau_cdag
  /\ \A i, j \in 1 .. Len(sl) : i # j => Occupied(sl[i]) \cap Occupied(sl[j]) = {}

C2_CountEqualsDim ==
  /\ pc = "idle" =>
       \A c \in Colors :
          ~IsFullLineColor(c) => Len(seglists[c]) = DetSize(dets[c])
  /\ ret.op = "accept" =>
       \A c \in Colors :
          LET grow == IF c = color THEN 1 ELSE 0
          IN /\ Len(seglists[c]) = Len(before.seglists[c]) + grow
             /\ DetSize(dets[c]) = DetSize(before.dets[c]) + grow
  /\ ret.op = "reject" =>
       \A c \in Colors :
          /\ Len(seglists[c]) = Len(before.seglists[c])
          /\ DetSize(dets[c]) = DetSize(before.dets[c])

\* Two accepted insertions into one color: two segments, a 2x2 determinant.
C2_Witness ==
  /\ pc = "idle" /\ ret.op = "accept"
  /\ Len(seglists[color]) = 2 /\ DetSize(dets[color]) = 2

\* ------------------------------------------------------------------ C3
\* C3: attempt() never modifies a segment list nor the keys of a
\* determinant, and finds no trial pending; after reject() every segment
\* list and every determinant (keys, dimension, no pending trial) equals
\* what the preceding attempt() found.
C3_RejectRestores ==
  /\ ret.op = "attempt" =>
       /\ seglists = before.seglists
       /\ \A c \in Colors :
            /\ before.dets[c].try = NoTry
            /\ dets[c].x = before.dets[c].x /\ dets[c].y = before.dets[c].y
  /\ ret.op = "reject" =>
       /\ seglists = before.seglists
       /\ dets = before.dets
       /\ \A c \in Colors : dets[c].try = NoTry

\* A trial insertion into a color that already holds a segment was rejected.
C3_Witness ==
  /\ pc = "idle" /\ ret.op = "reject"
  /\ prop_seg \notin {seglists[color][i] : i \in 1 .. Len(seglists[color])}
  /\ Len(seglists[color]) = 1 /\ DetSize(dets[color]) = 1
  /\ prop_seg # segment_t(tau_zero, tau_zero)

\* ------------------------------------------------------------------ C4
\* The trial segment lies strictly inside the chosen window.
TrialInsideWindow ==
  LET sl == seglists[color]
      wl == wtau_left(sl, drawn.seg_idx)
      L  == window_length(sl, drawn.seg_idx)
      dc    == TauSub(wl, prop_seg.tau_c)
      dcdag == TauSub(wl, prop_seg.tau_cdag)
  IN /\ 0 < dc /\ dc < L
     /\ 0 < dcdag /\ dcdag < L
     /\ dc # dcdag
     /\ sl # <<>> => dc < dcdag

\* C4: every color's list stays sorted and its segments pairwise
\* non-overlapping; a pending trial segment lies strictly inside the chosen
\* gap, and the list with the trial segment inserted is again ordered.
C4_SortedNonOverlapping ==
  /\ \A c \in Colors : IsFullLineColor(c) \/ SegListOrdered(seglists[c])
  /\ (pc = "proposed" /\ Pending(color)) => TrialInsideWindow

\* The accepted segment was inserted in front of an existing segment.
C4_Witness ==
  /\ pc = "idle" /\ ret.op = "accept"
  /\ Len(seglists[color]) = 2
  /\ prop_seg = seglists[color][1]
  /\ prop_seg # seglists[color][2]

\* ------------------------------------------------------------------ C5
\* C5: attempt() on a color holding a full line returns exactly 0, issues
\* no trial insertion and leaves every list and determinant unchanged.
C5_FullLine ==
  (ret.op = "attempt" /\ IsFullLineColor(color)) =>
     /\ ret.val = 0
     /\ seglists = before.seglists
     /\ dets = before.dets
     /\ \A c \in Colors : dets[c].try = NoTry

\* attempt() has just returned on a full-line color.
C5_Witness ==
  /\ pc = "proposed" /\ ret.op = "attempt"
  /\ IsFullLineColor(color)
  /\ ret.val = 0

\* ------------------------------------------------------------------ C6
\* C6: at most one determinant holds a pending trial, and none does once
\* accept() or reject() has returned (or before the first attempt()).
C6_OnePendingTrial ==
  /\ Cardinality({c \in Colors : Pending(c)}) <= 1
  /\ \A c \in Colors : Pending(c) => (pc = "proposed" /\ c = color)
  /\ pc # "proposed" => \A c \in Colors : ~Pending(c)

\* A second move cycle: a trial is pending after an earlier accept().
C6_Witness ==
  /\ pc = "proposed" /\ Pending(color)
  /\ \E c \in Colors : c # color /\ DetSize(dets[c]) > 0

\* ------------------------------------------------------------------ C7
\* C7: accept() changes only the chosen color: its list gains exactly
\* prop_seg, its determinant one row and one column with the keys of
\* prop_seg; every other color's list and determinant are unchanged.
C7_AcceptFrame ==
  ret.op \in {"accept", "abort"} =>
     /\ \E pos \in 0 .. Len(before.seglists[color]) :
          seglists[color] = InsertAt(before.seglists[color], pos, prop_seg)
     /\ \E i \in 0 .. DetSize(before.dets[color]) :
          dets[color].x = InsertAt(before.dets[color].x, i, prop_seg.tau_cdag)
     /\ \E j \in 0 .. DetSize(before.dets[color]) :
          dets[color].y = InsertAt(before.dets[color].y, j, prop_seg.tau_c)
     /\ \A c \in Colors \ {color} :
          seglists[c] = before.seglists[c] /\ dets[c] = before.dets[c]

\* An insertion into color 0 was accepted while another color holds a
\* segment and its operator pair.
C7_Witness ==
  /\ pc = "idle" /\ ret.op = "accept" /\ color = 0
  /\ seglists[0] = <<prop_seg>>
  /\ \E c \in Colors \ {0} :
        /\ Len(seglists[c]) = 1 /\ ~IsFullLineColor(c)
        /\ DetSize(dets[c]) = 1

\* ------------------------------------------------------------------ C8
\* C8: for an empty list the two offsets are never swapped: the trial
\* segment is {beta - dt1, beta - dt2} for either ordering of the draws, so
\* the two orderings give two distinct trial segments.
C8_EmptyLineNoSwap ==
  (pc = "proposed" /\ Pending(color) /\ seglists[color] = <<>>) =>
     /\ prop_seg = segment_t(tau_beta - drawn.dt1, tau_beta - drawn.dt2)
     /\ prop_seg # segment_t(tau_beta - drawn.dt2, tau_beta - drawn.dt1)

\* A trial on an empty line drawn with dt1 > dt2.
C8_Witness ==
  /\ pc = "proposed" /\ Pending(color) /\ seglists[color] = <<>>
  /\ drawn.dt1 > drawn.dt2
  /\ is_cyclic(prop_seg)

\* ------------------------------------------------------------------ C9, C10
RECURSIVE SumOver(_, _)
SumOver(f, S) ==
  IF S = {} THEN 0
  ELSE LET e == CHOOSE v \in S : TRUE IN f[e] + SumOver(f, S \ {e})

Ranks == 1 .. nranks

\* All-worker sums of what collect_results found in the accumulators.
EnteredZ == SumOver([w \in Ranks |-> entered.Z[w]], Ranks)

EnteredG(bl, i) == SumOver([w \in Ranks |-> entered.G_tau[w][bl][i]], Ranks)

EnteredF(bl, i) == SumOver([w \in Ranks |-> entered.F_tau[w][bl][i]], Ranks)

EndFactor(i) == IF i = 0 \/ i = NTau - 1 THEN 2 ELSE 1

\* v is EndFactor(i) * raw / (-beta * Zs * bin_width), bin_width being
\* beta / (NTau - 1): stated by cross-multiplication; a zero Zs gives the
\* non-finite result of dividing raw by -0.
IsPublished(v, raw, Zs, i) ==
  IF Zs = 0
  THEN v.den = 0 /\ v.num = -Sgn(raw)
  ELSE /\ v.den > 0
       /\ v.num * (-(Beta * Beta * Zs)) = EndFactor(i) * raw * (NTau - 1) * v.den

FracAdd(a, b) == Frac(a.num * b.den + b.num * a.den, a.den * b.den)

\* Sum over the bins 0..i of (published bin with the end-point doubling
\* undone) * bin_width * (-beta * Zs).
RECURSIVE UndoneSum(_, _, _)
UndoneSum(g, Zs, i) ==
  IF i < 0 THEN Frac(0, 1)
  ELSE FracAdd(Frac(g[i].num * Beta * (-(Beta * Zs)),
                    g[i].den * EndFactor(i) * (NTau - 1)),
               UndoneSum(g, Zs, i - 1))

RECURSIVE RawTotal(_, _)
RawTotal(bl, i) == IF i < 0 THEN 0 ELSE EnteredG(bl, i) + RawTotal(bl, i - 1)

\* C9: collect_results publishes, for every block and bin,
\* raw / (-beta * Z * bin_width) with raw and Z the all-worker sums, the
\* first and the last bin then doubled and no other; F_tau is rescaled with
\* the same reduced Z; with one worker the published bins, doubling undone,
\* times bin_width * (-beta * Z) add up to the raw accumulated total.
C9_Normalization ==
  mpc = "collected" =>
    \A w \in Ranks :
      /\ Z[w] = EnteredZ
      /\ \A bl \in Colors, i \in Bins :
           /\ IsPublished(results[w].G_tau[bl][i], EnteredG(bl, i), EnteredZ, i)
           /\ measure_F_tau =>
                IsPublished(results[w].F_tau[bl][i], EnteredF(bl, i), EnteredZ, i)
      /\ (nranks = 1 /\ EnteredZ # 0) =>
           \A bl \in Colors :
              UndoneSum(results[w].G_tau[bl], EnteredZ, NTau - 1)
                = Frac(RawTotal(bl, NTau - 1), 1)

\* One worker, two samples of sign +1, and non-zero values published in the
\* first, an inner and the last bin of a block.
C9_Witness ==
  /\ mpc = "collected" /\ nranks = 1 /\ Z[1] = 2
  /\ \E bl \in Colors :
       /\ results[1].G_tau[bl][0].num # 0
       /\ results[1].G_tau[bl][1].num # 0
       /\ results[1].G_tau[bl][NTau - 1].num # 0
       /\ results[1].G_tau[bl][0].den > 0

\* The two workers entered collect_results with the same accumulators.
TwoIdenticalWorkers ==
  /\ mpc = "collected" /\ nranks = 2
  /\ entered.G_tau[1] = entered.G_tau[2]
  /\ entered.F_tau[1] = entered.F_tau[2]
  /\ entered.Z[1] = entered.Z[2]

\* C10: with two workers holding identical histograms and Z, the reduction
\* doubles every bin and Z, and each worker publishes exactly what a
\* single worker holding that histogram and Z publishes.
C10_TwoWorkers ==
  TwoIdenticalWorkers =>
    \A w \in Ranks :
      /\ Z[w] = 2 * entered.Z[1]
      /\ \A bl \in Colors, i \in Bins :
           EnteredG(bl, i) = 2 * entered.G_tau[1][bl][i]
      /\ results[w].G_tau = Normalized(entered.G_tau[1], entered.Z[1])
      /\ measure_F_tau =>
           results[w].F_tau = Normalized(entered.F_tau[1], entered.Z[1])

\* Two workers, each with one sample of sign +1 on a two-segment color.
C10_Witness ==
  /\ TwoIdenticalWorkers
  /\ entered.Z[1] = 1
  /\ \E bl \in Colors, i \in Bins :
       /\ entered.G_tau[1][bl][i] # 0
       /\ results[1].G_tau[bl][i].num # 0

\* ------------------------------------------------------------------ C12
\* tau_cdag of the segment chosen by the last attempt() (window_left).
ChosenCdag == seglists[color][drawn.seg_idx + 1].tau_cdag

LargerOffset == IF drawn.dt1 > drawn.dt2 THEN drawn.dt1 ELSE drawn.dt2

SmallerOffset == IF drawn.dt1 > drawn.dt2 THEN drawn.dt2 ELSE drawn.dt1

\* C12 (as stated): on a non-empty list the trial segment has
\* tau_c = window_left - larger offset and tau_cdag = window_left - smaller
\* offset.
C12_Original ==
  (pc = "proposed" /\ Pending(color) /\ seglists[color] # <<>>) =>
     /\ prop_seg.tau_c = TauSub(ChosenCdag, LargerOffset)
     /\ prop_seg.tau_cdag = TauSub(ChosenCdag, SmallerOffset)

\* C12 (amended): on a non-empty list the two offsets are ordered so that
\* the trial segment has tau_c = window_left - smaller offset and
\* tau_cdag = window_left - larger offset, window_left being the chosen
\* segment's tau_cdag and the subtraction beta-periodic.
C12_OffsetOrder ==
  (pc = "proposed" /\ Pending(color) /\ seglists[color] # <<>>) =>
     /\ prop_seg.tau_c = TauSub(ChosenCdag, SmallerOffset)
     /\ prop_seg.tau_cdag = TauSub(ChosenCdag, LargerOffset)

\* A trial on a non-empty list whose draws came in decreasing order and
\* whose tau_cdag wraps around beta.
C12_Witness ==
  /\ pc = "proposed" /\ Pending(color) /\ seglists[color] # <<>>
  /\ drawn.dt1 > drawn.dt2
  /\ prop_seg.tau_c < ChosenCdag /\ prop_seg.tau_cdag > ChosenCdag

\* ------------------------------------------------------------------ C13
\* The last attempt() went past the full-line and the equal-time exits.
ReachedTrial == drawn # NoDraw /\ drawn.dt1 # drawn.dt2

\* C13 (as stated): every accept() or reject() call finds a trial pending
\* on the determinant of the chosen color.
C13_Original ==
  [][(pc = "proposed" /\ pc' # "proposed") => Pending(color)]_vars

\* C13 (amended): whenever accept() may be called (a non-zero weight was
\* returned) the determinant of the chosen color holds the trial issued by
\* the preceding attempt(), and complete_operation commits it; when reject()
\* is called that determinant holds a pending trial exactly when the
\* preceding attempt() went past the full-line and equal-time exits, and
\* after those exits reject_last_try acts on a determinant without a trial
\* and changes nothing; no other color ever holds a trial.
C13_PendingAtCall ==
  /\ pc = "proposed" =>
       /\ ret.val # 0 => Pending(color)
       /\ Pending(color) <=> ReachedTrial
       /\ Pending(color) =>
            /\ dets[color].try[1].x = prop_seg.tau_cdag
            /\ dets[color].try[1].y = prop_seg.tau_c
       /\ \A c \in Colors \ {color} : ~Pending(c)
  /\ ret.op \in {"accept", "abort"} =>
       DetSize(dets[color]) = DetSize(before.dets[color]) + 1
  /\ ret.op = "reject" => dets[color] = before.dets[color]

\* reject() has returned after an attempt() on a full-line color.
C13_Witness ==
  /\ pc = "idle" /\ ret.op = "reject"
  /\ IsFullLineColor(color)
  /\ dets[color] = EmptyDet

\* ------------------------------------------------------------------ C14
\* C14: when the two drawn offsets are equal, attempt() returns exactly 0,
\* stores no trial segment (prop_seg is never a zero-length segment built
\* from equal offsets), issues no trial insertion, and leaves every segment
\* list and every determinant unchanged.
C14_EqualTimes ==
  (ret.op = "attempt" /\ drawn # NoDraw /\ drawn.dt1 = drawn.dt2) =>
     /\ ret.val = 0
     /\ seglists = before.seglists
     /\ dets = before.dets
     /\ \A c \in Colors : ~Pending(c)
     /\ prop_seg.tau_c = prop_seg.tau_cdag =>
          prop_seg = segment_t(tau_zero, tau_zero)

\* Equal offsets were drawn in the window after an existing segment, a
\* trial segment of an earlier attempt() being still stored.
C14_Witness ==
  /\ pc = "proposed" /\ ret.op = "attempt" /\ ret.val = 0
  /\ drawn.dt1 = drawn.dt2 /\ drawn.dt1 > 0
  /\ seglists[color] # <<>>
  /\ prop_seg.tau_c # prop_seg.tau_cdag

\* ------------------------------------------------------------------ C20
\* Times of the operators of a list (the full-line sentinel has none).
CdagTimes(sl) ==
  {sl[i].tau_cdag : i \in {k \in 1 .. Len(sl) : ~is_full_line(sl[k])}}

CTimes(sl) ==
  {sl[i].tau_c : i \in {k \in 1 .. Len(sl) : ~is_full_line(sl[k])}}

KeySet(keys) == {keys[i] : i \in 1 .. Len(keys)}

\* The order lower_bound assumes: strictly increasing keys.
KeysIncreasing(keys) == \A i \in 1 .. (Len(keys) - 1) : keys[i] < keys[i + 1]

\* C20: between moves, for every color, the row keys of the determinant are
\* exactly the tau_cdag times and the column keys exactly the tau_c times
\* of the segments of the list; both key sequences are increasing (the
\* order the binary search of attempt() assumes) at all times.
C20_DetKeys ==
  /\ pc = "idle" =>
       \A c \in Colors :
          /\ KeySet(dets[c].x) = CdagTimes(seglists[c])
          /\ KeySet(dets[c].y) = CTimes(seglists[c])
          /\ Len(dets[c].x) = Cardinality(CdagTimes(seglists[c]))
          /\ Len(dets[c].y) = Len(dets[c].x)
  /\ \A c \in Colors :
       KeysIncreasing(dets[c].x) /\ KeysIncreasing(dets[c].y)

\* A second insertion was accepted whose keys went in front of the keys of
\* the segment already present.
C20_Witness ==
  /\ pc = "idle" /\ ret.op = "accept"
  /\ DetSize(dets[color]) = 2
  /\ dets[color].x[1] = prop_seg.tau_cdag
  /\ dets[color].y[1] = prop_seg.tau_c

\* ------------------------------------------------------------------ C11
\* A block_gf with one histogram per block (allocated, not moved from).
IsBlockGf(g) == g # Unset /\ g # Moved

FRequested == p_measure_F_tau /\ rot_inv

\* C11 (as stated): when F(tau) was not requested or the model is not
\* rotationally invariant, no F histogram is allocated, none receives a
\* contribution and none is published.
C11_Original ==
  ~FRequested =>
     \A w \in Workers : ~IsBlockGf(F_tau[w]) /\ results[w].F_tau = Unset

\* C11 (amended): the constructor allocates and zeroes the F histogram in
\* every case and sets measure_F_tau to (requested and rot_inv).  When that
\* condition is false the F histogram stays zero through every accumulate()
\* and collect_results neither reduces, rescales, moves nor publishes it;
\* when it is true collect_results publishes it.
C11_FHistogram ==
  /\ measure_F_tau = FRequested
  /\ mpc = "accumulating" => \A w \in Workers : IsBlockGf(F_tau[w])
  /\ ~FRequested =>
       \A w \in Workers : F_tau[w] = ZeroGf /\ results[w].F_tau = Unset
  /\ (FRequested /\ mpc = "collected") =>
       \A w \in Ranks : F_tau[w] = Moved /\ IsBlockGf(results[w].F_tau)

\* F(tau) was requested for a model that is not rotationally invariant;
\* two accumulate() calls filled G_tau, and collect_results published G_tau
\* only.
C11_Witness ==
  /\ p_measure_F_tau /\ ~rot_inv
  /\ mpc = "collected" /\ n_meas = 2
  /\ \E bl \in Colors, i \in Bins : entered.G_tau[1][bl][i] # 0
  /\ F_tau[1] = ZeroGf /\ results[1].F_tau = Unset
  /\ IsBlockGf(results[1].G_tau)

\* ------------------------------------------------------------------ C18
\* A step of accumulate().
AccumulateStep == n_meas' = n_meas + 1

\* Bin b is a bin nearest to the time difference n (in grid units): no mesh
\* point i * beta / (NTau - 1) is strictly nearer to beta * n / NMax.
IsNearestBin(b, n) ==
  \A i \in Bins : Abs(n * (NTau - 1) - b * NMax) <= Abs(n * (NTau - 1) - i * NMax)

\* The contribution of the pair (id_y, id_x): sign times the inverse-matrix
\* entry, negated exactly when the get_y time is strictly before the get_x
\* time.
Contribution(D, m, s, id_y, id_x) ==
  LET ty == D.y[id_y + 1]
      tx == D.x[id_x + 1]
  IN IF ty < tx THEN -(s * inverse_matrix(m, id_y, id_x))
     ELSE s * inverse_matrix(m, id_y, id_x)

\* Beta-periodic difference ty - tx.
PeriodicDiff(ty, tx) == (ty - tx + NMax) % NMax

\* Total of the contributions of the N x N pairs of D that fall into bin i.
BinTotal(D, m, s, i) ==
  LET ps == {q \in Pairs(DetSize(D)) : PairBin(D, q) = i}
  IN SumOver([q \in ps |-> Contribution(D, m, s, q[1], q[2])], ps)

\* C18: every pair of every determinant goes into a bin nearest to its
\* beta-periodic time difference y - x, and each accumulate(sign) call on
\* a worker adds to every bin of every block exactly the contributions of
\* the N x N pairs falling into it, and nothing to the other workers.
C18_Contributions ==
  /\ [](\A bl \in Colors : \A q \in Pairs(DetSize(dets[bl])) :
          LET ty == dets[bl].y[q[1] + 1]
              tx == dets[bl].x[q[2] + 1]
          IN IsNearestBin(PairBin(dets[bl], q), PeriodicDiff(ty, tx)))
  /\ [][AccumulateStep =>
         \E w \in Ranks, s \in {-1, 1}, m \in MinvChoices :
            /\ Z' = [Z EXCEPT ![w] = @ + s]
            /\ \A bl \in Colors, i \in Bins :
                  G_tau'[w][bl][i] - G_tau[w][bl][i] = BinTotal(dets[bl], m, s, i)
            /\ \A v \in Workers \ {w} : G_tau'[v] = G_tau[v]]_vars

\* One accumulate(+1) on a two-segment color: the last bin holds the single
\* negated contribution, the first bin two contributions.
C18_Witness ==
  /\ mpc = "accumulating" /\ n_meas = 1 /\ Z[1] = 1
  /\ DetSize(dets[0]) = 2
  /\ G_tau[1][0][NTau - 1] = -1
  /\ G_tau[1][0][0] = 2

\* ------------------------------------------------------------------ C19
\* Sum of the Z accumulators of the workers.
RECURSIVE ZTotal(_)
ZTotal(w) == IF w = 0 THEN 0 ELSE Z[w] + ZTotal(w - 1)

\* C19: each accumulate(sign) call adds exactly sign, once, to the Z of
\* the worker it is called on, whatever the number of colors and the sizes
\* of the determinants, and changes no segment list and no determinant;
\* after k calls the Z accumulators together hold a sum of k signs.
C19_ZIncrement ==
  /\ [][AccumulateStep =>
         /\ \E w \in Ranks, s \in {-1, 1} : Z' = [Z EXCEPT ![w] = @ + s]
         /\ seglists' = seglists /\ dets' = dets]_vars
  /\ [](mpc = "accumulating" =>
          /\ Abs(ZTotal(NWorkers)) <= n_meas
          /\ (n_meas - ZTotal(NWorkers)) % 2 = 0)

\* Two accumulate(-1) calls while every determinant is empty.
C19_Witness ==
  /\ mpc = "accumulating" /\ n_meas = 2 /\ nranks = 1
  /\ Z[1] = -2
  /\ \A c \in Colors : dets[c] = EmptyDet
  /\ G_tau[1] = ZeroGf

\* ------------------------------------------------------------------ C15
\* Number of grid steps from time t down the circle to the first tau_c of
\* the list sl, n steps being already made.
RECURSIVE GapWalk(_, _, _)
GapWalk(sl, t, n) ==
  IF n >= NMax THEN n
  ELSE LET u == (t + NMax - 1) % NMax
       IN IF u \in {sl[i].tau_c : i \in 1 .. Len(sl)} THEN n + 1
          ELSE GapWalk(sl, u, n + 1)

\* Number of grid steps a segment covers, from tau_c down to tau_cdag.
SegSteps(seg) == (seg.tau_c - seg.tau_cdag + NMax) % NMax

\* C15: whenever attempt() has drawn offsets, the window it used starts at
\* the chosen segment's tau_cdag and ends at the tau_c of the next segment
\* of the list (the first one after the last), its length being the number
\* of grid steps of that gap; for an empty list it starts at beta and has
\* length beta; for a single segment its length is that of the complement
\* of the segment; the offsets drawn lie strictly inside the window.
C15_Window ==
  (pc = "proposed" /\ drawn # NoDraw) =>
     LET sl == seglists[color]
         k  == drawn.seg_idx
         wl == wtau_left(sl, k)
         wr == wtau_right(sl, k)
         L  == window_length(sl, k)
     IN /\ sl = <<>> => (wl = tau_beta /\ L = tau_beta)
        /\ sl # <<>> =>
             /\ wl = sl[k + 1].tau_cdag
             /\ wr = sl[IF k + 1 = Len(sl) THEN 1 ELSE k + 2].tau_c
             /\ L = GapWalk(sl, wl, 0)
             /\ L = (wl - wr + NMax) % NMax
        /\ Len(sl) = 1 => L = NMax - SegSteps(sl[1])
        /\ 0 < drawn.dt1 /\ drawn.dt1 < L
        /\ 0 < drawn.dt2 /\ drawn.dt2 < L

\* Offsets were drawn in the window after the last of two segments, which
\* ends at the first segment of the list.
C15_Witness ==
  /\ pc = "proposed" /\ drawn # NoDraw
  /\ Len(seglists[color]) = 2
  /\ drawn.seg_idx = 1
  /\ drawn.dt1 = window_length(seglists[color], 1) - 1

\* ------------------------------------------------------------------ C16
\* attempt() has returned from the weight computation.
Weighed == pc = "proposed" /\ ret.op = "attempt"

\* C16: the proposal ratio is (max(1, N) * L^2 / d) / (N + 1), N being the
\* segment count of the chosen color before the insertion, L the window
\* length beta * n / n_max and d = 1 for an empty list, d = 2 otherwise:
\* L^2 for N = 0 and N * L^2 / (2 * (N + 1)) for N >= 1.  Stated by
\* cross-multiplication on the fraction num / den.
C16_PropRatio ==
  Weighed =>
     LET N     == Len(seglists[color])
         pr    == drawn.prop_ratio
         L2num == (Beta * drawn.window_length) * (Beta * drawn.window_length)
         L2den == NMax * NMax
         maxN  == IF N >= 1 THEN N ELSE 1
         d     == IF N = 0 THEN 1 ELSE 2
     IN /\ drawn.window_length = window_length(seglists[color], drawn.seg_idx)
        /\ pr.den > 0
        /\ pr.num * (L2den * d * (N + 1)) = maxN * L2num * pr.den
        /\ N = 0 => pr.num * L2den = L2num * pr.den
        /\ N >= 1 => pr.num * (2 * (N + 1) * L2den) = N * L2num * pr.den

\* The weight was computed for an insertion into an empty list (no
\* halving): window length beta, proposal ratio beta^2.
C16_Witness ==
  /\ Weighed
  /\ seglists[color] = <<>>
  /\ drawn.window_length = NMax
  /\ drawn.prop_ratio = Frac(Beta * Beta, 1)

\* ------------------------------------------------------------------ C17
\* C17: when attempt() reaches the weight computation it stores
\* det_sign = +1 if det_ratio > 0 and -1 in every other case, returns
\* trace_ratio * det_ratio * prop_ratio when that product is finite and
\* det_sign otherwise, and leaves the trial insertion of prop_seg pending on
\* the determinant of the chosen color; the stored det_sign is +1 or -1 at
\* all times.
C17_Weight ==
  /\ Weighed =>
       /\ det_sign = (IF drawn.det_ratio > 0 THEN 1 ELSE -1)
       /\ drawn.prod_finite =>
            /\ ret.val.den > 0
            /\ ret.val.num * drawn.prop_ratio.den
                 = drawn.trace_ratio * drawn.det_ratio * drawn.prop_ratio.num * ret.val.den
       /\ ~drawn.prod_finite => ret.val = [num |-> det_sign, den |-> 1]
       /\ Pending(color)
       /\ dets[color].try[1].x = prop_seg.tau_cdag
       /\ dets[color].try[1].y = prop_seg.tau_c
  /\ det_sign \in {-1, 1}

\* A zero determinant ratio with a product that is not finite: -1 is stored
\* and returned.
C17_Witness ==
  /\ Weighed
  /\ drawn.det_ratio = 0 /\ ~drawn.prod_finite
  /\ det_sign = -1
  /\ ret.val = [num |-> -1, den |-> 1]
  /\ Len(seglists[color]) = 1

====
